---------------------------- MODULE Spec2Model ----------------------------
(***************************************************************************)
(* TensorAdapter (tfx_bsl/tfxio/tensor_adapter.py): conversion of an Arrow *)
(* RecordBatch into dense and varlen-sparse tensors.                       *)
(*                                                                         *)
(* Conventions of the model                                                *)
(*   - an Arrow DataType is a sequence of constructor tags: pa.list_(t)    *)
(*     prepends "list" to t, so list<list<int32>> is                       *)
(*     <<"list", "list", "int32">>;                                        *)
(*   - a ListArray is a sequence of rows; a row is a record                *)
(*     [valid, items]: a null list has valid = FALSE and no items;         *)
(*   - a python dict is a sequence of [name, value] records with unique    *)
(*     names, in insertion order;                                          *)
(*   - None in a tensor shape is the integer Unbound;                      *)
(*   - an ndarray / Tensor is a record [dtype, shape, flat] with the       *)
(*     elements in row-major order;                                        *)
(*   - list elements themselves are never null;                            *)
(*   - a python int is a record [neg, limbs]: its sign and the four        *)
(*     base-65536 digits of its magnitude, most significant first, so that *)
(*     the 64-bit values of the DefaultValue proto and of np.iinfo are     *)
(*     kept exactly; a byte string is a record [bytes] holding a tag.      *)
(***************************************************************************)
EXTENDS Integers, Sequences, FiniteSets, TLC

VARIABLES
  config,     \* the TensorAdapterConfig handed to TensorAdapter()
  eager,      \* tf.executing_eagerly(), fixed for the life of the process
  adapter,    \* the result of TensorAdapter(config): the object or the exception
  batches,    \* the caller's RecordBatch objects
  frame,      \* the position and locals of the ToBatchTensors call
  memo,       \* the outcome of the first completed call on batch 1
  build,      \* the position and locals of _BuildTypeHandlers, stepped
  threads     \* the frames of the ToBatchTensors calls of concurrent threads

vars == <<config, eager, adapter, batches, frame, memo, build, threads>>

(***************************************************************************)
(* Bounds of the model.                                                    *)
(***************************************************************************)
MaxRows == 2
MaxRowLen == 2
NumBatches == 3
MaxOutputs == 3
NumThreads == 2

BatchIds == 1..NumBatches

\* None as the size of a dimension.
Unbound == -1

\* The python int of magnitude <<l3, l2, l1, l0>> in base 65536.
PyInt(neg, limbs) == [neg |-> neg, limbs |-> limbs]

\* The python int n, 0 <= n < 65536.
Small(n) == PyInt(FALSE, <<0, 0, 0, n>>)

\* The byte string tagged n.
Bytes(n) == [bytes |-> n]

\* a < b for magnitudes
RECURSIVE LimbsLess(_, _)
LimbsLess(a, b) ==
  IF a = <<>> THEN FALSE
  ELSE IF Head(a) # Head(b) THEN Head(a) < Head(b)
  ELSE LimbsLess(Tail(a), Tail(b))

\* a <= b for python ints
IntLeq(a, b) ==
  IF a.neg /\ ~b.neg THEN TRUE
  ELSE IF ~a.neg /\ b.neg THEN FALSE
  ELSE IF a.neg THEN ~LimbsLess(a.limbs, b.limbs)
  ELSE ~LimbsLess(b.limbs, a.limbs)

\* The scalar values found in the lists of the first caller's batch.
Values == {Small(1), Small(2)}

(***************************************************************************)
(* Sequences and dicts.                                                    *)
(***************************************************************************)
RECURSIVE SeqsUpTo(_, _)
SeqsUpTo(S, n) ==
  IF n = 0 THEN {<<>>}
  ELSE LET shorter == SeqsUpTo(S, n - 1)
       IN shorter \cup {Append(s, x) : s \in {t \in shorter : Len(t) = n - 1}, x \in S}

RECURSIVE SeqsOfLen(_, _)
SeqsOfLen(S, n) ==
  IF n = 0 THEN {<<>>}
  ELSE {Append(s, x) : s \in SeqsOfLen(S, n - 1), x \in S}

Range(s) == {s[i] : i \in 1..Len(s)}

RECURSIVE Repeat(_, _)
Repeat(x, n) == IF n <= 0 THEN <<>> ELSE <<x>> \o Repeat(x, n - 1)

RECURSIVE SumSeq(_)
SumSeq(s) == IF s = <<>> THEN 0 ELSE Head(s) + SumSeq(Tail(s))

RECURSIVE MaxSeq(_)
MaxSeq(s) ==
  IF s = <<>> THEN 0
  ELSE LET m == MaxSeq(Tail(s)) IN IF Head(s) > m THEN Head(s) ELSE m

DictKeys(d) == {d[i].name : i \in 1..Len(d)}

DictHas(d, k) == \E i \in 1..Len(d) : d[i].name = k

DictGet(d, k) == d[CHOOSE i \in 1..Len(d) : d[i].name = k].value

\* d[k] = v
DictSet(d, k, v) ==
  IF DictHas(d, k)
  THEN [i \in 1..Len(d) |-> IF d[i].name = k THEN [name |-> k, value |-> v] ELSE d[i]]
  ELSE Append(d, [name |-> k, value |-> v])

(***************************************************************************)
(* Results of python calls: a returned value or a raised exception.        *)
(* The error names are the specification's names for the exceptions:       *)
(*   SchemaMismatch                "Expected same schema."                 *)
(*   ConversionFailed              "Error raised when handling tensor ..." *)
(*   ShapeMismatch                 "... size mismatch. expected ..."       *)
(*   UnsupportedRepresentationKind "Unable to handle tensor {} with rep {}"*)
(*   NoCompatibleHandler           "... against schema: {}"                *)
(*   InvalidDefaultValue           "Incompatible default value: ..."       *)
(*   DefaultValueOutOfRange        "Integer default value out of range"    *)
(*   UnknownColumn                 AttributeError on the None field        *)
(***************************************************************************)
Ok(v) == [ok |-> TRUE, value |-> v]

Raise(e) == [ok |-> FALSE, error |-> e]

(***************************************************************************)
(* Arrow types, fields and schemas.                                        *)
(***************************************************************************)
IntegerTypes ==
  {"int8", "int16", "int32", "int64", "uint8", "uint16", "uint32", "uint64"}

FloatingTypes == {"float32", "float64"}

BinaryTypes == {"binary"}

\* pa.types.is_list
IsList(arrow_type) == Len(arrow_type) > 0 /\ Head(arrow_type) = "list"

\* pa.list_(t)
ListOf(arrow_type) == <<"list">> \o arrow_type

\* pa.types.is_integer, is_floating, is_binary
IsInteger(arrow_type) == Len(arrow_type) = 1 /\ arrow_type[1] \in IntegerTypes

IsFloating(arrow_type) == Len(arrow_type) = 1 /\ arrow_type[1] \in FloatingTypes

IsBinary(arrow_type) == Len(arrow_type) = 1 /\ arrow_type[1] \in BinaryTypes

RECURSIVE NestLoop(_, _)
NestLoop(depth, arrow_type) ==
  IF IsList(arrow_type) THEN NestLoop(depth + 1, Tail(arrow_type))
  ELSE [depth |-> depth, value_type |-> arrow_type]

GetNestDepthAndValueType(arrow_field) == NestLoop(0, arrow_field.type)

IsSupportedArrowValueType(arrow_type) ==
  IsInteger(arrow_type) \/ IsFloating(arrow_type) \/ IsBinary(arrow_type)

\* DataType.to_pandas_dtype(): the numpy dtype; byte and text strings are
\* python objects.
ToPandasDtype(arrow_type) ==
  IF arrow_type[1] \in {"binary", "string", "list"} THEN "object" ELSE arrow_type[1]

\* tf.dtypes.as_dtype of a numpy dtype.
TfAsDtype(np_dtype) == IF np_dtype = "object" THEN "string" ELSE np_dtype

ArrowTypeToTfDtype(arrow_type) == TfAsDtype(ToPandasDtype(arrow_type))

\* np.iinfo(dtype).min and .max
IInfoMin(np_dtype) ==
  CASE np_dtype = "int8" -> PyInt(TRUE, <<0, 0, 0, 128>>)
    [] np_dtype = "int16" -> PyInt(TRUE, <<0, 0, 0, 32768>>)
    [] np_dtype = "int32" -> PyInt(TRUE, <<0, 0, 32768, 0>>)
    [] np_dtype = "int64" -> PyInt(TRUE, <<32768, 0, 0, 0>>)
    [] np_dtype \in {"uint8", "uint16", "uint32", "uint64"} -> Small(0)

IInfoMax(np_dtype) ==
  CASE np_dtype = "int8" -> Small(127)
    [] np_dtype = "int16" -> Small(32767)
    [] np_dtype = "int32" -> PyInt(FALSE, <<0, 0, 32767, 65535>>)
    [] np_dtype = "int64" -> PyInt(FALSE, <<32767, 65535, 65535, 65535>>)
    [] np_dtype = "uint8" -> Small(255)
    [] np_dtype = "uint16" -> Small(65535)
    [] np_dtype = "uint32" -> PyInt(FALSE, <<0, 0, 65535, 65535>>)
    [] np_dtype = "uint64" -> PyInt(FALSE, <<65535, 65535, 65535, 65535>>)

\* Schema.equals: the ordered (name, type) sequences are equal.
SchemaEquals(s1, s2) ==
  /\ Len(s1) = Len(s2)
  /\ \A i \in 1..Len(s1) : s1[i].name = s2[i].name /\ s1[i].type = s2[i].type

\* Schema.get_field_index: the 0-based index of the only field of that name,
\* -1 when there is none or several.
GetFieldIndex(arrow_schema, column_name) ==
  LET hits == {i \in 1..Len(arrow_schema) : arrow_schema[i].name = column_name}
  IN IF Cardinality(hits) = 1 THEN (CHOOSE i \in hits : TRUE) - 1 ELSE -1

\* arrow_schema[i] for a python index i (negative indices count from the end).
SchemaAt(arrow_schema, i) ==
  IF i >= 0 THEN arrow_schema[i + 1] ELSE arrow_schema[Len(arrow_schema) + 1 + i]

\* Schema.field_by_name returns None when get_field_index finds nothing.
FieldByNameIsNone(arrow_schema, column_name) ==
  GetFieldIndex(arrow_schema, column_name) = -1

FieldByName(arrow_schema, column_name) ==
  SchemaAt(arrow_schema, GetFieldIndex(arrow_schema, column_name))

(***************************************************************************)
(* Arrow list arrays and record batches.                                   *)
(***************************************************************************)
NullList == [valid |-> FALSE, items |-> <<>>]

List(items) == [valid |-> TRUE, items |-> items]

\* A pa.Array: its type and its data (rows of a ListArray, else scalars).
Array(arrow_type, data) == [type |-> arrow_type, data |-> data]

RECURSIVE FlattenRows(_)
FlattenRows(rows) ==
  IF rows = <<>> THEN <<>>
  ELSE (IF Head(rows).valid THEN Head(rows).items ELSE <<>>)
         \o FlattenRows(Tail(rows))

\* ListArray.flatten(): the array of the rows' items one after the other; a
\* null list contributes nothing.
Flatten(list_array) == Array(Tail(list_array.type), FlattenRows(list_array.data))

\* RecordBatch.column(i), i 0-based.
Column(record_batch, i) ==
  Array(record_batch.schema[i + 1].type, record_batch.columns[i + 1])

\* array_util.FillNullLists(list_array, fill_with): a new ListArray in which
\* every null list is replaced by the list of fill_with's elements.
FillNullLists(list_array, fill_with) ==
  Array(list_array.type,
        [r \in 1..Len(list_array.data) |->
           IF list_array.data[r].valid THEN list_array.data[r]
           ELSE List(fill_with.data)])

\* array_util.CooFromListArray(list_array): a flat int64 array holding the
\* (row, position) coordinate of every element, by row then position, and the
\* dense shape (number of rows, longest row).
RECURSIVE CooLoop(_, _)
CooLoop(rows, r) ==
  IF r > Len(rows) THEN <<>>
  ELSE LET n == Len(rows[r].items)
       IN [j \in 1..(2 * n) |-> IF j % 2 = 1 THEN r - 1 ELSE (j \div 2) - 1]
            \o CooLoop(rows, r + 1)

CooFromListArray(list_array) ==
  LET rows == list_array.data
  IN [coo_array |-> Array(<<"int64">>, CooLoop(rows, 1)),
      dense_shape_array |->
        Array(<<"int64">>,
              <<Len(rows), MaxSeq([r \in 1..Len(rows) |-> Len(rows[r].items)])>>)]

(***************************************************************************)
(* numpy arrays and tensors.                                               *)
(***************************************************************************)
\* int(np.prod(shape, initial=1))
RECURSIVE Prod(_)
Prod(shape) == IF shape = <<>> THEN 1 ELSE Head(shape) * Prod(Tail(shape))

NdArray(dtype, shape, flat) == [dtype |-> dtype, shape |-> shape, flat |-> flat]

\* np.asarray(arrow_array) of an array without nulls: one dimension, the
\* numpy dtype of the arrow type, the same elements.
NpAsarray(values) ==
  NdArray(ToPandasDtype(values.type), <<Len(values.data)>>, values.data)

\* ndarray.reshape(shape): the same row-major buffer under the new shape;
\* raises when the sizes differ.
Reshape(array, shape) ==
  IF Prod(shape) = Len(array.flat)
  THEN Ok(NdArray(array.dtype, shape, array.flat))
  ELSE Raise("ReshapeError")

\* tf.convert_to_tensor(ndarray): same shape and elements, the tf dtype.
ConvertToTensor(array) == NdArray(TfAsDtype(array.dtype), array.shape, array.flat)

\* TensorSpec.is_compatible_with(value), SparseTensorSpec likewise: the same
\* dtype, the same rank, and every bound dimension equal.
ShapeIsCompatibleWith(spec_shape, shape) ==
  /\ Len(spec_shape) = Len(shape)
  /\ \A i \in 1..Len(shape) : spec_shape[i] = Unbound \/ spec_shape[i] = shape[i]

IsCompatibleWith(type_spec, value) ==
  IF type_spec.cls = "TensorSpec"
  THEN /\ value.cls = "Tensor"
       /\ TfAsDtype(value.array.dtype) = type_spec.dtype
       /\ ShapeIsCompatibleWith(type_spec.shape, value.array.shape)
  ELSE /\ value.cls = "SparseTensor"
       /\ TfAsDtype(value.values.dtype) = type_spec.dtype
       /\ value.dense_shape.shape = <<Len(type_spec.shape)>>
       /\ ShapeIsCompatibleWith(type_spec.shape, value.dense_shape.flat)
       /\ value.indices.shape = <<Len(value.values.flat), Len(type_spec.shape)>>

(***************************************************************************)
(* Default values (tensor_adapter.py, _GetAllowedDefaultValue and          *)
(* _GetDefaultFill).  A DefaultValue proto is [kind, value]; kind "none"   *)
(* is the proto with no field of the oneof set.                            *)
(***************************************************************************)
\* _GetAllowedDefaultValue comparing the value with iinfo.max only.
GetAllowedDefaultValueMaxOnly(value_type, default_value_proto) ==
  LET kind == default_value_proto.kind
  IN IF kind \in {"int_value", "uint_value"} /\ IsInteger(value_type)
     THEN LET value == default_value_proto.value
              np_dtype == ToPandasDtype(value_type)
          IN IF IntLeq(value, IInfoMax(np_dtype))
             THEN Ok(value)
             ELSE Raise("DefaultValueOutOfRange")
     ELSE IF kind = "float_value" /\ IsFloating(value_type)
     THEN Ok(default_value_proto.value)
     ELSE IF kind = "bytes_value" /\ IsBinary(value_type)
     THEN Ok(default_value_proto.value)
     ELSE Raise("InvalidDefaultValue")

\* _GetAllowedDefaultValue taking a float_value for integer columns too.
GetAllowedDefaultValueFloatForInteger(value_type, default_value_proto) ==
  LET kind == default_value_proto.kind
  IN IF kind \in {"int_value", "uint_value"} /\ IsInteger(value_type)
     THEN LET value == default_value_proto.value
              np_dtype == ToPandasDtype(value_type)
          IN IF IntLeq(value, IInfoMax(np_dtype)) /\ IntLeq(IInfoMin(np_dtype), value)
             THEN Ok(value)
             ELSE Raise("DefaultValueOutOfRange")
     ELSE IF kind = "float_value" /\ (IsFloating(value_type) \/ IsInteger(value_type))
     THEN Ok(default_value_proto.value)
     ELSE IF kind = "bytes_value" /\ IsBinary(value_type)
     THEN Ok(default_value_proto.value)
     ELSE Raise("InvalidDefaultValue")

GetAllowedDefaultValue(value_type, default_value_proto) ==
  LET kind == default_value_proto.kind
  IN IF kind \in {"int_value", "uint_value"} /\ IsInteger(value_type)
     THEN LET value == default_value_proto.value
              np_dtype == ToPandasDtype(value_type)
          IN IF IntLeq(value, IInfoMax(np_dtype)) /\ IntLeq(IInfoMin(np_dtype), value)
             THEN Ok(value)
             ELSE Raise("DefaultValueOutOfRange")
     ELSE IF kind = "float_value" /\ IsFloating(value_type)
     THEN Ok(default_value_proto.value)
     ELSE IF kind = "bytes_value" /\ IsBinary(value_type)
     THEN Ok(default_value_proto.value)
     ELSE Raise("InvalidDefaultValue")

\* _GetDefaultFill taking the sum of the dimensions for the size.
GetDefaultFillSum(unbatched_shape, value_type, default_value_proto) ==
  LET size == SumSeq(unbatched_shape)
      allowed == GetAllowedDefaultValue(value_type, default_value_proto)
  IN IF allowed.ok
     THEN Ok(Array(value_type, Repeat(allowed.value, size)))
     ELSE allowed

GetDefaultFill(unbatched_shape, value_type, default_value_proto) ==
  LET size == Prod(unbatched_shape)
      allowed == GetAllowedDefaultValue(value_type, default_value_proto)
  IN IF allowed.ok
     THEN Ok(Array(value_type, Repeat(allowed.value, size)))
     ELSE allowed

(***************************************************************************)
(* The type handlers.  A TensorRepresentation is                           *)
(*   [kind |-> "dense_tensor", column_name, dims, has_default,             *)
(*    default_value],                                                      *)
(*   [kind |-> "varlen_sparse_tensor", column_name] or [kind |-> "none"].  *)
(***************************************************************************)
\* _BaseDenseTensorHandler.__init__ deriving the dtype from the column's type
\* with the list layer still on it.
BaseDenseTensorHandlerInitListDtype(cls, arrow_schema, tensor_representation) ==
  LET column_name == tensor_representation.column_name
      column_index == GetFieldIndex(arrow_schema, column_name)
      unbatched_shape == tensor_representation.dims
  IN [cls |-> cls,
      column_index |-> column_index,
      dtype |-> ArrowTypeToTfDtype(SchemaAt(arrow_schema, column_index).type),
      shape |-> <<Unbound>> \o unbatched_shape,
      unbatched_flat_len |-> Prod(unbatched_shape)]

\* _BaseDenseTensorHandler.__init__
BaseDenseTensorHandlerInit(cls, arrow_schema, tensor_representation) ==
  LET column_name == tensor_representation.column_name
      column_index == GetFieldIndex(arrow_schema, column_name)
      value_type ==
        GetNestDepthAndValueType(SchemaAt(arrow_schema, column_index)).value_type
      unbatched_shape == tensor_representation.dims
  IN [cls |-> cls,
      column_index |-> column_index,
      dtype |-> ArrowTypeToTfDtype(value_type),
      shape |-> <<Unbound>> \o unbatched_shape,
      unbatched_flat_len |-> Prod(unbatched_shape)]

\* BaseCanHandle taking lists nested at any depth.
BaseCanHandleAnyDepth(arrow_schema, tensor_representation) ==
  IF FieldByNameIsNone(arrow_schema, tensor_representation.column_name)
  THEN Raise("UnknownColumn")
  ELSE LET nest == GetNestDepthAndValueType(
                     FieldByName(arrow_schema, tensor_representation.column_name))
       IN Ok(nest.depth >= 1 /\ IsSupportedArrowValueType(nest.value_type))

\* BaseCanHandle answering False for a column the schema does not have.
BaseCanHandleAbsentIsFalse(arrow_schema, tensor_representation) ==
  IF FieldByNameIsNone(arrow_schema, tensor_representation.column_name)
  THEN Ok(FALSE)
  ELSE LET nest == GetNestDepthAndValueType(
                     FieldByName(arrow_schema, tensor_representation.column_name))
       IN Ok(nest.depth = 1 /\ IsSupportedArrowValueType(nest.value_type))

\* _BaseDenseTensorHandler.BaseCanHandle
BaseCanHandle(arrow_schema, tensor_representation) ==
  IF FieldByNameIsNone(arrow_schema, tensor_representation.column_name)
  THEN Raise("UnknownColumn")
  ELSE LET nest == GetNestDepthAndValueType(
                     FieldByName(arrow_schema, tensor_representation.column_name))
       IN Ok(nest.depth = 1 /\ IsSupportedArrowValueType(nest.value_type))

\* _DenseTensorHandler.__init__ (inherited)
DenseTensorHandlerInit(arrow_schema, tensor_representation) ==
  Ok(BaseDenseTensorHandlerInit("DenseTensorHandler", arrow_schema,
                                tensor_representation))

\* _DenseTensorHandler.CanHandle without the test of the default value.
DenseTensorHandlerCanHandleAnyDefault(arrow_schema, tensor_representation) ==
  BaseCanHandle(arrow_schema, tensor_representation)

\* _DenseTensorHandler.CanHandle
DenseTensorHandlerCanHandle(arrow_schema, tensor_representation) ==
  LET base == BaseCanHandle(arrow_schema, tensor_representation)
  IN IF base.ok
     THEN Ok(base.value /\ ~tensor_representation.has_default)
     ELSE base

\* _DefaultFillingDenseTensorHandler.__init__
DefaultFillingDenseTensorHandlerInit(arrow_schema, tensor_representation) ==
  LET base == BaseDenseTensorHandlerInit("DefaultFillingDenseTensorHandler",
                                         arrow_schema, tensor_representation)
      value_type ==
        GetNestDepthAndValueType(SchemaAt(arrow_schema, base.column_index)).value_type
      fill == GetDefaultFill(Tail(base.shape), value_type,
                             tensor_representation.default_value)
  IN IF fill.ok
     THEN Ok([cls |-> base.cls,
              column_index |-> base.column_index,
              dtype |-> base.dtype,
              shape |-> base.shape,
              unbatched_flat_len |-> base.unbatched_flat_len,
              default_fill |-> fill.value])
     ELSE fill

\* _DefaultFillingDenseTensorHandler.CanHandle
DefaultFillingDenseTensorHandlerCanHandle(arrow_schema, tensor_representation) ==
  LET base == BaseCanHandle(arrow_schema, tensor_representation)
  IN IF base.ok
     THEN Ok(base.value /\ tensor_representation.has_default)
     ELSE base

\* _VarLenSparseTensorHandler.__init__
VarLenSparseTensorHandlerInit(arrow_schema, tensor_representation) ==
  LET column_name == tensor_representation.column_name
      column_index == GetFieldIndex(arrow_schema, column_name)
      value_type ==
        GetNestDepthAndValueType(SchemaAt(arrow_schema, column_index)).value_type
  IN Ok([cls |-> "VarLenSparseTensorHandler",
         column_index |-> column_index,
         dtype |-> ArrowTypeToTfDtype(value_type)])

\* _VarLenSparseTensorHandler.CanHandle
VarLenSparseTensorHandlerCanHandle(arrow_schema, tensor_representation) ==
  IF FieldByNameIsNone(arrow_schema, tensor_representation.column_name)
  THEN Raise("UnknownColumn")
  ELSE LET nest == GetNestDepthAndValueType(
                     FieldByName(arrow_schema, tensor_representation.column_name))
       IN Ok(nest.depth = 1 /\ IsSupportedArrowValueType(nest.value_type))

\* type_spec of the three handler classes
TypeSpec(handler) ==
  IF handler.cls = "VarLenSparseTensorHandler"
  THEN [cls |-> "SparseTensorSpec", shape |-> <<Unbound, Unbound>>,
        dtype |-> handler.dtype]
  ELSE [cls |-> "TensorSpec", shape |-> handler.shape, dtype |-> handler.dtype]

(***************************************************************************)
(* Conversion.  A dense value is [cls |-> "Tensor", array] (an ndarray in  *)
(* graph mode, a tf.Tensor in eager mode); a sparse value is               *)
(* [cls |-> "SparseTensor", indices, dense_shape, values].                 *)
(* GetTensor is a method call on heap objects: its effect is the returned  *)
(* value or raised exception together with the handler and the record      *)
(* batch as the call leaves them.                                          *)
(***************************************************************************)
Tensor(array) == [cls |-> "Tensor", array |-> array]

SparseTensor(indices, dense_shape, values) ==
  [cls |-> "SparseTensor", indices |-> indices, dense_shape |-> dense_shape,
   values |-> values]

Effect(result, self, record_batch) ==
  [result |-> result, self |-> self, record_batch |-> record_batch]

SelfEffect(result, self) == [result |-> result, self |-> self]

\* _BaseDenseTensorHandler._ListArrayToTensor comparing the length of each
\* list with unbatched_flat_len.
ListArrayToTensorPerRow(self, list_array, executing_eagerly) ==
  LET values == Flatten(list_array)
      batch_size == Len(list_array.data)
  IN IF \E r \in 1..batch_size :
          Len(list_array.data[r].items) # self.unbatched_flat_len
     THEN SelfEffect(Raise("ShapeMismatch"), self)
     ELSE LET actual_shape == [self.shape EXCEPT ![1] = batch_size]
              values_np == Reshape(NpAsarray(values), actual_shape)
          IN IF ~values_np.ok THEN SelfEffect(values_np, self)
             ELSE IF executing_eagerly
             THEN SelfEffect(Ok(Tensor(ConvertToTensor(values_np.value))), self)
             ELSE SelfEffect(Ok(Tensor(values_np.value)), self)

\* _BaseDenseTensorHandler._ListArrayToTensor reshaping in column-major
\* (order="F") instead of row-major order.
ListArrayToTensorFortran(self, list_array, executing_eagerly) ==
  LET values == Flatten(list_array)
      batch_size == Len(list_array.data)
      expected_num_elements == batch_size * self.unbatched_flat_len
  IN IF Len(values.data) # expected_num_elements
     THEN SelfEffect(Raise("ShapeMismatch"), self)
     ELSE LET actual_shape == [self.shape EXCEPT ![1] = batch_size]
              len == self.unbatched_flat_len
              permuted ==
                Array(values.type,
                      [j \in 1..expected_num_elements |->
                         values.data[((j - 1) % len) * batch_size
                                       + ((j - 1) \div len) + 1]])
              values_np == Reshape(NpAsarray(permuted), actual_shape)
          IN IF ~values_np.ok THEN SelfEffect(values_np, self)
             ELSE IF executing_eagerly
             THEN SelfEffect(Ok(Tensor(ConvertToTensor(values_np.value))), self)
             ELSE SelfEffect(Ok(Tensor(values_np.value)), self)

\* _BaseDenseTensorHandler._ListArrayToTensor with actual_shape an alias of
\* self._shape instead of a copy.
ListArrayToTensorAliasedShape(self, list_array, executing_eagerly) ==
  LET values == Flatten(list_array)
      batch_size == Len(list_array.data)
      expected_num_elements == batch_size * self.unbatched_flat_len
  IN IF Len(values.data) # expected_num_elements
     THEN SelfEffect(Raise("ShapeMismatch"), self)
     ELSE LET actual_shape == [self.shape EXCEPT ![1] = batch_size]
              aliased == [self EXCEPT !.shape = actual_shape]
              values_np == Reshape(NpAsarray(values), actual_shape)
          IN IF ~values_np.ok THEN SelfEffect(values_np, aliased)
             ELSE IF executing_eagerly
             THEN SelfEffect(Ok(Tensor(ConvertToTensor(values_np.value))), aliased)
             ELSE SelfEffect(Ok(Tensor(values_np.value)), aliased)

\* _BaseDenseTensorHandler._ListArrayToTensor; actual_shape is a copy of
\* self._shape, which the assignment to actual_shape[0] leaves alone.
ListArrayToTensor(self, list_array, executing_eagerly) ==
  LET values == Flatten(list_array)
      batch_size == Len(list_array.data)
      expected_num_elements == batch_size * self.unbatched_flat_len
  IN IF Len(values.data) # expected_num_elements
     THEN SelfEffect(Raise("ShapeMismatch"), self)
     ELSE LET actual_shape == [self.shape EXCEPT ![1] = batch_size]
              values_np == Reshape(NpAsarray(values), actual_shape)
          IN IF ~values_np.ok THEN SelfEffect(values_np, self)
             ELSE IF executing_eagerly
             THEN SelfEffect(Ok(Tensor(ConvertToTensor(values_np.value))), self)
             ELSE SelfEffect(Ok(Tensor(values_np.value)), self)

\* _DenseTensorHandler.GetTensor
DenseTensorHandlerGetTensor(self, record_batch, executing_eagerly) ==
  LET column == Column(record_batch, self.column_index)
      converted == ListArrayToTensor(self, column, executing_eagerly)
  IN Effect(converted.result, converted.self, record_batch)

\* _DefaultFillingDenseTensorHandler.GetTensor filling the batch's own column.
DefaultFillingDenseTensorHandlerGetTensorInPlace(self, record_batch, executing_eagerly) ==
  LET column == Column(record_batch, self.column_index)
      filled == FillNullLists(column, self.default_fill)
      converted == ListArrayToTensor(self, filled, executing_eagerly)
  IN Effect(converted.result, converted.self,
            [record_batch EXCEPT !.columns[self.column_index + 1] = filled.data])

\* _DefaultFillingDenseTensorHandler.GetTensor; column is rebound to the new
\* array FillNullLists returns, the batch keeps its own.
DefaultFillingDenseTensorHandlerGetTensor(self, record_batch, executing_eagerly) ==
  LET column == Column(record_batch, self.column_index)
      filled == FillNullLists(column, self.default_fill)
      converted == ListArrayToTensor(self, filled, executing_eagerly)
  IN Effect(converted.result, converted.self, record_batch)

\* _VarLenSparseTensorHandler.GetTensor reshaping the coordinates to
\* (2, size) instead of (size, 2).
VarLenSparseTensorHandlerGetTensorTransposed(self, record_batch, executing_eagerly) ==
  LET array == Column(record_batch, self.column_index)
      coo == CooFromListArray(array)
      dense_shape_np == NpAsarray(coo.dense_shape_array)
      values_np == NpAsarray(Flatten(array))
      coo_np == Reshape(NpAsarray(coo.coo_array), <<2, Len(values_np.flat)>>)
  IN IF ~coo_np.ok THEN Effect(coo_np, self, record_batch)
     ELSE IF executing_eagerly
     THEN Effect(Ok(SparseTensor(ConvertToTensor(coo_np.value),
                                 ConvertToTensor(dense_shape_np),
                                 ConvertToTensor(values_np))),
                 self, record_batch)
     ELSE Effect(Ok(SparseTensor(coo_np.value, dense_shape_np, values_np)),
                 self, record_batch)

\* _VarLenSparseTensorHandler.GetTensor
VarLenSparseTensorHandlerGetTensor(self, record_batch, executing_eagerly) ==
  LET array == Column(record_batch, self.column_index)
      coo == CooFromListArray(array)
      dense_shape_np == NpAsarray(coo.dense_shape_array)
      values_np == NpAsarray(Flatten(array))
      coo_np == Reshape(NpAsarray(coo.coo_array), <<Len(values_np.flat), 2>>)
  IN IF ~coo_np.ok THEN Effect(coo_np, self, record_batch)
     ELSE IF executing_eagerly
     THEN Effect(Ok(SparseTensor(ConvertToTensor(coo_np.value),
                                 ConvertToTensor(dense_shape_np),
                                 ConvertToTensor(values_np))),
                 self, record_batch)
     ELSE Effect(Ok(SparseTensor(coo_np.value, dense_shape_np, values_np)),
                 self, record_batch)

\* handler.GetTensor(record_batch), by the handler's class
GetTensor(self, record_batch, executing_eagerly) ==
  CASE self.cls = "DenseTensorHandler" ->
         DenseTensorHandlerGetTensor(self, record_batch, executing_eagerly)
    [] self.cls = "DefaultFillingDenseTensorHandler" ->
         DefaultFillingDenseTensorHandlerGetTensor(self, record_batch,
                                                   executing_eagerly)
    [] self.cls = "VarLenSparseTensorHandler" ->
         VarLenSparseTensorHandlerGetTensor(self, record_batch, executing_eagerly)

(***************************************************************************)
(* Construction (_TYPE_HANDLER_MAP, _BuildTypeHandlers,                    *)
(* TensorAdapter.__init__).                                                *)
(***************************************************************************)
TYPE_HANDLER_MAP(kind) ==
  CASE kind = "dense_tensor" ->
         <<"DenseTensorHandler", "DefaultFillingDenseTensorHandler">>
    [] kind = "varlen_sparse_tensor" -> <<"VarLenSparseTensorHandler">>
    [] OTHER -> <<>>

\* h.CanHandle(arrow_schema, rep)
CanHandle(h, arrow_schema, rep) ==
  CASE h = "DenseTensorHandler" -> DenseTensorHandlerCanHandle(arrow_schema, rep)
    [] h = "DefaultFillingDenseTensorHandler" ->
         DefaultFillingDenseTensorHandlerCanHandle(arrow_schema, rep)
    [] h = "VarLenSparseTensorHandler" ->
         VarLenSparseTensorHandlerCanHandle(arrow_schema, rep)

\* h(arrow_schema, rep)
NewHandler(h, arrow_schema, rep) ==
  CASE h = "DenseTensorHandler" -> DenseTensorHandlerInit(arrow_schema, rep)
    [] h = "DefaultFillingDenseTensorHandler" ->
         DefaultFillingDenseTensorHandlerInit(arrow_schema, rep)
    [] h = "VarLenSparseTensorHandler" ->
         VarLenSparseTensorHandlerInit(arrow_schema, rep)

\* the loop over potential_handlers, from its k-th candidate
RECURSIVE FindHandler(_, _, _, _)
FindHandler(potential_handlers, k, arrow_schema, rep) ==
  IF k > Len(potential_handlers) THEN Raise("NoCompatibleHandler")
  ELSE LET can == CanHandle(potential_handlers[k], arrow_schema, rep)
       IN IF ~can.ok THEN can
          ELSE IF can.value
          THEN NewHandler(potential_handlers[k], arrow_schema, rep)
          ELSE FindHandler(potential_handlers, k + 1, arrow_schema, rep)

\* the loop over the items of tensor_representations, from its k-th item
RECURSIVE BuildLoop(_, _, _, _)
BuildLoop(tensor_representations, arrow_schema, k, result) ==
  IF k > Len(tensor_representations) THEN Ok(result)
  ELSE LET tensor_name == tensor_representations[k].name
           rep == tensor_representations[k].value
           potential_handlers == TYPE_HANDLER_MAP(rep.kind)
       IN IF potential_handlers = <<>>
          THEN [ok |-> FALSE, error |-> "UnsupportedRepresentationKind",
                output |-> tensor_name]
          ELSE LET found == FindHandler(potential_handlers, 1, arrow_schema, rep)
               IN IF ~found.ok
                  THEN [ok |-> FALSE, error |-> found.error, output |-> tensor_name]
                  ELSE BuildLoop(tensor_representations, arrow_schema, k + 1,
                                 Append(result, [name |-> tensor_name,
                                                 value |-> found.value]))

BuildTypeHandlers(tensor_representations, arrow_schema) ==
  BuildLoop(tensor_representations, arrow_schema, 1, <<>>)

\* TensorAdapter.__init__
TensorAdapterInit(cfg) ==
  LET type_handlers == BuildTypeHandlers(cfg.tensor_representations, cfg.arrow_schema)
  IN IF ~type_handlers.ok THEN type_handlers
     ELSE Ok([arrow_schema |-> cfg.arrow_schema,
              type_handlers |-> type_handlers.value,
              type_specs |->
                [i \in 1..Len(type_handlers.value) |->
                   [name |-> type_handlers.value[i].name,
                    value |-> TypeSpec(type_handlers.value[i].value)]]])

(***************************************************************************)
(* Inputs.                                                                 *)
(***************************************************************************)
Field(name, arrow_type) == [name |-> name, type |-> arrow_type]

\* The schema of the adapters: a list<int32> column and a list<binary> one.
Schema0 == <<Field("a", ListOf(<<"int32">>)), Field("b", ListOf(<<"binary">>))>>

\* The same columns in the other order.
Schema1 == <<Field("b", ListOf(<<"binary">>)), Field("a", ListOf(<<"int32">>))>>

DefaultValue(kind, value) == [kind |-> kind, value |-> value]

NoDefault == DefaultValue("none", Small(0))

Dense(column_name, dims) ==
  [kind |-> "dense_tensor", column_name |-> column_name, dims |-> dims,
   has_default |-> FALSE, default_value |-> NoDefault]

DenseDefault(column_name, dims, default_value) ==
  [kind |-> "dense_tensor", column_name |-> column_name, dims |-> dims,
   has_default |-> TRUE, default_value |-> default_value]

VarLen(column_name) == [kind |-> "varlen_sparse_tensor", column_name |-> column_name]

Item(name, value) == [name |-> name, value |-> value]

DimsChoices == {<<>>, <<0>>, <<1>>, <<2>>, <<2, 1>>}

\* The default of the int32 column and of the binary column.
IntDefault == DefaultValue("int_value", Small(9))

BytesDefault == DefaultValue("bytes_value", Bytes(8))

OneOutput ==
  {<<Item("x", Dense("a", dims))>> : dims \in DimsChoices}
    \cup {<<Item("x", DenseDefault("a", dims, IntDefault))>> : dims \in DimsChoices}
    \cup {<<Item("x", VarLen("a"))>>, <<Item("x", VarLen("b"))>>,
          <<Item("x", DenseDefault("b", <<>>, BytesDefault))>>}

SeveralOutputs ==
  {<<Item("x", Dense("a", <<1>>)), Item("y", VarLen("a"))>>,
   <<Item("x", VarLen("a")), Item("y", DenseDefault("a", <<2>>, IntDefault))>>,
   <<Item("x", Dense("b", <<>>)), Item("y", Dense("a", <<2, 1>>)),
     Item("z", VarLen("a"))>>,
   <<Item("x", DenseDefault("a", <<1>>, IntDefault)), Item("y", Dense("a", <<1>>)),
     Item("z", VarLen("b"))>>}

Configs ==
  {[arrow_schema |-> Schema0, tensor_representations |-> reps] :
     reps \in OneOutput \cup SeveralOutputs}

Rows == {NullList} \cup {List(items) : items \in SeqsUpTo(Values, MaxRowLen)}

\* The second column of a batch of n rows: lists of one byte string, the
\* first of them null or not.
BytesColumns(n) ==
  {[r \in 1..n |-> List(<<Bytes(7)>>)],
   [r \in 1..n |-> IF r = 1 THEN NullList ELSE List(<<Bytes(7)>>)]}

RecordBatch(schema, columns) == [schema |-> schema, columns |-> columns]

\* The batches of the adapters' schema.
MainBatches ==
  UNION {{RecordBatch(Schema0, <<a, b>>) : a \in SeqsOfLen(Rows, n), b \in BytesColumns(n)} :
           n \in 0..MaxRows}

\* The other batches the caller converts: of the adapters' schema for odd k,
\* of the schema with the columns swapped for even k.
OtherBatch(k) ==
  IF k % 2 = 1
  THEN RecordBatch(Schema0, <<[r \in 1..(k - 1) |-> List(<<Small(r)>>)],
                              [r \in 1..(k - 1) |-> List(<<Bytes(7)>>)]>>)
  ELSE RecordBatch(Schema1, <<[r \in 1..k |-> List(<<Bytes(7)>>)],
                              [r \in 1..k |-> List(<<Small(r)>>)]>>)

(***************************************************************************)
(* The state machine: construction, then calls of ToBatchTensors, one at a *)
(* time, each on one of the caller's batches.                              *)
(***************************************************************************)
NotConstructed == [ok |-> FALSE, error |-> "NotConstructed"]

NoOutcome == [status |-> "none"]

Returned(result) == [status |-> "returned", result |-> result]

Raised(error) == [status |-> "raised", error |-> error]

\* ValueError("Error raised when handling tensor {}: {}".format(tensor_name, e))
ConversionFailed(tensor_name, e) ==
  [status |-> "raised", error |-> "ConversionFailed", output |-> tensor_name,
   cause |-> e]

\* The frame of a call: its position pc, the batch b it converts, the loop
\* index i, the dict result, and for the properties the names of the outputs
\* whose handler it has invoked, its outcome, whether it repeats a completed
\* call on batch 1 and whether a call on another batch completed since the
\* first one on batch 1.
IdleFrame ==
  [pc |-> "idle", b |-> 0, i |-> 0, result |-> <<>>, invoked |-> <<>>,
   outcome |-> NoOutcome, repeat |-> FALSE, between |-> FALSE]

\* The locals of _BuildTypeHandlers: its position pc, the index k of the
\* item of tensor_representations, the index j of the candidate handler, the
\* list result, and for the properties the names of the outputs examined and
\* the CanHandle calls made.
IdleBuild ==
  [pc |-> "idle", k |-> 0, j |-> 0, result |-> <<>>, examined |-> <<>>,
   evaluated |-> <<>>]

\* No thread is calling.
NoThreads == <<>>

Init ==
  /\ config \in Configs
  /\ eager \in BOOLEAN
  /\ adapter = NotConstructed
  /\ batches \in {[b \in BatchIds |-> IF b = 1 THEN main ELSE OtherBatch(b)] :
                    main \in MainBatches}
  /\ frame = IdleFrame
  /\ memo = NoOutcome
  /\ build = IdleBuild
  /\ threads = NoThreads

\* adapter = TensorAdapter(config)
Construct ==
  /\ adapter = NotConstructed
  /\ adapter' = TensorAdapterInit(config)
  /\ UNCHANGED <<build, threads, config, eager, batches, frame, memo>>

\* the caller enters adapter.ToBatchTensors(batches[b])
Call(b) ==
  /\ adapter.ok
  /\ frame.pc \in {"idle", "done"}
  /\ frame' = [pc |-> "check", b |-> b, i |-> 0, result |-> <<>>,
               invoked |-> <<>>, outcome |-> NoOutcome,
               repeat |-> (b = 1 /\ memo # NoOutcome),
               between |-> frame.between]
  /\ UNCHANGED <<build, threads, config, eager, adapter, batches, memo>>

\* the call is over, by return or raise: the caller has its outcome
Finish(fr, outcome) ==
  /\ frame' = [fr EXCEPT !.pc = "done", !.outcome = outcome,
                         !.between = fr.between \/ (fr.b # 1 /\ memo # NoOutcome)]
  /\ memo' = IF fr.b = 1 /\ memo = NoOutcome THEN outcome ELSE memo

\* ToBatchTensors, lines 81-83, comparing only the numbers of columns.
CheckSchemaColumnCount ==
  /\ frame.pc = "check"
  /\ IF Len(batches[frame.b].schema) # Len(adapter.value.arrow_schema)
     THEN Finish(frame, Raised("SchemaMismatch"))
     ELSE /\ frame' = [frame EXCEPT !.pc = "loop", !.i = 1, !.result = <<>>]
          /\ memo' = memo
  /\ UNCHANGED <<build, threads, config, eager, adapter, batches>>

\* ToBatchTensors, lines 81-83
CheckSchema ==
  /\ frame.pc = "check"
  /\ IF ~SchemaEquals(batches[frame.b].schema, adapter.value.arrow_schema)
     THEN Finish(frame, Raised("SchemaMismatch"))
     ELSE /\ frame' = [frame EXCEPT !.pc = "loop", !.i = 1, !.result = <<>>]
          /\ memo' = memo
  /\ UNCHANGED <<build, threads, config, eager, adapter, batches>>

\* ToBatchTensors, lines 84-89, with an except clause that drops the failing
\* output and goes on to the next.
HandleTensorContinue ==
  /\ frame.pc = "loop"
  /\ frame.i <= Len(adapter.value.type_handlers)
  /\ LET tensor_name == adapter.value.type_handlers[frame.i].name
         handler == adapter.value.type_handlers[frame.i].value
         effect == GetTensor(handler, batches[frame.b], eager)
     IN /\ adapter' = [adapter EXCEPT !.value.type_handlers[frame.i].value = effect.self]
        /\ batches' = [batches EXCEPT ![frame.b] = effect.record_batch]
        /\ frame' = [frame EXCEPT
                       !.i = frame.i + 1,
                       !.invoked = Append(frame.invoked, tensor_name),
                       !.result = IF effect.result.ok
                                  THEN DictSet(frame.result, tensor_name,
                                               effect.result.value)
                                  ELSE frame.result]
        /\ memo' = memo
  /\ UNCHANGED <<build, threads, config, eager>>

\* ToBatchTensors, lines 84-89: one iteration of the loop over the handlers
HandleTensor ==
  /\ frame.pc = "loop"
  /\ frame.i <= Len(adapter.value.type_handlers)
  /\ LET tensor_name == adapter.value.type_handlers[frame.i].name
         handler == adapter.value.type_handlers[frame.i].value
         effect == GetTensor(handler, batches[frame.b], eager)
     IN /\ adapter' = [adapter EXCEPT !.value.type_handlers[frame.i].value = effect.self]
        /\ batches' = [batches EXCEPT ![frame.b] = effect.record_batch]
        /\ IF effect.result.ok
           THEN /\ frame' = [frame EXCEPT
                               !.i = frame.i + 1,
                               !.invoked = Append(frame.invoked, tensor_name),
                               !.result = DictSet(frame.result, tensor_name,
                                                  effect.result.value)]
                /\ memo' = memo
           ELSE Finish([frame EXCEPT !.invoked = Append(frame.invoked, tensor_name)],
                       ConversionFailed(tensor_name, effect.result.error))
  /\ UNCHANGED <<build, threads, config, eager>>

\* ToBatchTensors, line 91
Return ==
  /\ frame.pc = "loop"
  /\ frame.i > Len(adapter.value.type_handlers)
  /\ Finish(frame, Returned(frame.result))
  /\ UNCHANGED <<build, threads, config, eager, adapter, batches>>

Next ==
  \/ Construct
  \/ \E b \in BatchIds : Call(b)
  \/ CheckSchema
  \/ HandleTensor
  \/ Return

Spec == Init /\ [][Next]_vars

(***************************************************************************)
(* Construction, stepped: the inputs of the construction tests and one     *)
(* action per step of _BuildTypeHandlers.                                  *)
(***************************************************************************)
\* The floating-point number tagged n.
Float(n) == [float |-> n]

\* The magnitudes 2^e, 2^e - 1 and 2^e + 1, 1 <= e <= 64 (2^e: e < 64).
PowLimbs(e) == [i \in 1..4 |-> IF 4 - i = e \div 16 THEN 2 ^ (e % 16) ELSE 0]

PowMinusOneLimbs(e) ==
  [i \in 1..4 |-> IF 4 - i < e \div 16 THEN 65535
                  ELSE IF 4 - i = e \div 16 THEN 2 ^ (e % 16) - 1 ELSE 0]

PowPlusOneLimbs(e) == [PowLimbs(e) EXCEPT ![4] = @ + 1]

\* The exponents at which the ranges of the integer types end.
Exponents == {7, 8, 15, 16, 31, 32, 63}

\* Values of the int64 field int_value and of the uint64 field uint_value, on
\* both sides of every end of a range.
IntValues ==
  {Small(0), Small(9), PyInt(TRUE, <<0, 0, 0, 1>>)}
    \cup {PyInt(FALSE, PowMinusOneLimbs(e)) : e \in Exponents}
    \cup {PyInt(FALSE, PowLimbs(e)) : e \in Exponents \ {63}}
    \cup {PyInt(TRUE, PowLimbs(e)) : e \in Exponents}
    \cup {PyInt(TRUE, PowPlusOneLimbs(e)) : e \in Exponents \ {63}}

UintValues ==
  {Small(0), Small(9)}
    \cup {PyInt(FALSE, PowMinusOneLimbs(e)) : e \in Exponents \cup {64}}
    \cup {PyInt(FALSE, PowLimbs(e)) : e \in Exponents}

\* The DefaultValue protos: no kind set, and each kind of the oneof.
DefaultChoices ==
  {NoDefault, DefaultValue("float_value", Float(1)), BytesDefault}
    \cup {DefaultValue("int_value", v) : v \in IntValues}
    \cup {DefaultValue("uint_value", v) : v \in UintValues}

\* A schema with a column of every kind: lists of each integer, floating
\* and binary type, lists of strings and of booleans, a column that is not a
\* list and lists of lists.
BuildSchema ==
  <<Field("int8", ListOf(<<"int8">>)), Field("int16", ListOf(<<"int16">>)),
    Field("int32", ListOf(<<"int32">>)), Field("int64", ListOf(<<"int64">>)),
    Field("uint8", ListOf(<<"uint8">>)), Field("uint16", ListOf(<<"uint16">>)),
    Field("uint32", ListOf(<<"uint32">>)), Field("uint64", ListOf(<<"uint64">>)),
    Field("float32", ListOf(<<"float32">>)), Field("float64", ListOf(<<"float64">>)),
    Field("binary", ListOf(<<"binary">>)), Field("string", ListOf(<<"string">>)),
    Field("bool", ListOf(<<"bool">>)), Field("scalar", <<"int64">>),
    Field("nested", ListOf(ListOf(<<"int64">>))),
    Field("nested_bool", ListOf(ListOf(ListOf(<<"bool">>))))>>

\* The columns a representation names: those of the schema and one more.
ColumnNames == {BuildSchema[i].name : i \in 1..Len(BuildSchema)} \cup {"missing"}

\* A TensorRepresentation with no kind set.
NoKind == [kind |-> "none"]

\* The representations of the adapters of one output.
RepChoices ==
  {NoKind}
    \cup {Dense(c, <<2>>) : c \in ColumnNames}
    \cup {VarLen(c) : c \in ColumnNames}
    \cup {DenseDefault(c, <<2>>, d) : c \in ColumnNames, d \in DefaultChoices}

\* The representations of the adapters of several outputs: three the schema
\* supports and one for each way construction fails.
RepPool ==
  {Dense("int32", <<2>>), DenseDefault("int8", <<>>, IntDefault), VarLen("binary"),
   NoKind, Dense("missing", <<2>>), VarLen("nested"),
   DenseDefault("int8", <<2>>, DefaultValue("int_value", Small(128))),
   DenseDefault("float32", <<2>>, BytesDefault)}

TensorNames == <<"t1", "t2", "t3", "t4", "t5">>

\* The dict of the representations reps, named in order.
RepDict(reps) == [i \in 1..Len(reps) |-> Item(TensorNames[i], reps[i])]

BuildConfigs ==
  {[arrow_schema |-> BuildSchema, tensor_representations |-> RepDict(reps)] :
     reps \in SeqsOfLen(RepChoices, 1)
                \cup UNION {SeqsOfLen(RepPool, n) : n \in 2..MaxOutputs}}

InitBuild ==
  /\ config \in BuildConfigs
  /\ eager = FALSE
  /\ adapter = NotConstructed
  /\ batches = [b \in BatchIds |-> OtherBatch(b)]
  /\ frame = IdleFrame
  /\ memo = NoOutcome
  /\ build = IdleBuild
  /\ threads = NoThreads

\* the exception leaves _BuildTypeHandlers and TensorAdapter.__init__
BuildFail(bd, error, tensor_name) ==
  /\ build' = [bd EXCEPT !.pc = "failed"]
  /\ adapter' = [ok |-> FALSE, error |-> error, output |-> tensor_name]

\* TensorAdapter.__init__ calls _BuildTypeHandlers: result = []
BuildBegin ==
  /\ adapter = NotConstructed
  /\ build.pc = "idle"
  /\ build' = [build EXCEPT !.pc = "loop", !.k = 1, !.result = <<>>]
  /\ UNCHANGED <<threads, config, eager, adapter, batches, frame, memo>>

\* _BuildTypeHandlers, lines 313-317: the next item of the dict and its
\* potential handlers
BuildLookup ==
  /\ build.pc = "loop"
  /\ build.k <= Len(config.tensor_representations)
  /\ LET tensor_name == config.tensor_representations[build.k].name
         rep == config.tensor_representations[build.k].value
         potential_handlers == TYPE_HANDLER_MAP(rep.kind)
         bd == [build EXCEPT !.examined = Append(build.examined, tensor_name)]
     IN IF potential_handlers = <<>>
        THEN BuildFail(bd, "UnsupportedRepresentationKind", tensor_name)
        ELSE /\ build' = [bd EXCEPT !.pc = "try", !.j = 1]
             /\ adapter' = adapter
  /\ UNCHANGED <<threads, config, eager, batches, frame, memo>>

\* _BuildTypeHandlers, lines 319-323, where a failing output is left out of
\* the result and the loop goes on.
BuildTryHandlerSkip ==
  /\ build.pc = "try"
  /\ LET tensor_name == config.tensor_representations[build.k].name
         rep == config.tensor_representations[build.k].value
         potential_handlers == TYPE_HANDLER_MAP(rep.kind)
     IN /\ build.j <= Len(potential_handlers)
        /\ LET h == potential_handlers[build.j]
               can == CanHandle(h, config.arrow_schema, rep)
               bd == [build EXCEPT
                        !.evaluated = Append(build.evaluated,
                                             [output |-> tensor_name, handler |-> h])]
           IN IF ~can.ok
              THEN build' = [bd EXCEPT !.pc = "loop", !.k = build.k + 1]
              ELSE IF can.value
              THEN LET handler == NewHandler(h, config.arrow_schema, rep)
                   IN IF ~handler.ok
                      THEN build' = [bd EXCEPT !.pc = "loop", !.k = build.k + 1]
                      ELSE build' = [bd EXCEPT
                                       !.pc = "loop", !.k = build.k + 1,
                                       !.result = Append(build.result,
                                                         Item(tensor_name,
                                                              handler.value))]
              ELSE build' = [bd EXCEPT !.j = build.j + 1]
  /\ UNCHANGED <<threads, config, eager, adapter, batches, frame, memo>>

\* _BuildTypeHandlers, lines 319-323: one iteration of the loop over the
\* potential handlers
BuildTryHandler ==
  /\ build.pc = "try"
  /\ LET tensor_name == config.tensor_representations[build.k].name
         rep == config.tensor_representations[build.k].value
         potential_handlers == TYPE_HANDLER_MAP(rep.kind)
     IN /\ build.j <= Len(potential_handlers)
        /\ LET h == potential_handlers[build.j]
               can == CanHandle(h, config.arrow_schema, rep)
               bd == [build EXCEPT
                        !.evaluated = Append(build.evaluated,
                                             [output |-> tensor_name, handler |-> h])]
           IN IF ~can.ok
              THEN BuildFail(bd, can.error, tensor_name)
              ELSE IF can.value
              THEN LET handler == NewHandler(h, config.arrow_schema, rep)
                   IN IF ~handler.ok
                      THEN BuildFail(bd, handler.error, tensor_name)
                      ELSE /\ build' = [bd EXCEPT
                                          !.pc = "loop", !.k = build.k + 1,
                                          !.result = Append(build.result,
                                                            Item(tensor_name,
                                                                 handler.value))]
                           /\ adapter' = adapter
              ELSE /\ build' = [bd EXCEPT !.j = build.j + 1]
                   /\ adapter' = adapter
  /\ UNCHANGED <<threads, config, eager, batches, frame, memo>>

\* _BuildTypeHandlers, lines 324-327: no potential handler can handle
BuildNoHandler ==
  /\ build.pc = "try"
  /\ build.j > Len(TYPE_HANDLER_MAP(config.tensor_representations[build.k].value.kind))
  /\ BuildFail(build, "NoCompatibleHandler",
               config.tensor_representations[build.k].name)
  /\ UNCHANGED <<threads, config, eager, batches, frame, memo>>

\* _BuildTypeHandlers, line 329, and TensorAdapter.__init__, lines 69-73
BuildReturn ==
  /\ build.pc = "loop"
  /\ build.k > Len(config.tensor_representations)
  /\ build' = [build EXCEPT !.pc = "done"]
  /\ adapter' = Ok([arrow_schema |-> config.arrow_schema,
                    type_handlers |-> build.result,
                    type_specs |->
                      [i \in 1..Len(build.result) |->
                         Item(build.result[i].name,
                              TypeSpec(build.result[i].value))]])
  /\ UNCHANGED <<threads, config, eager, batches, frame, memo>>

NextBuild ==
  \/ BuildBegin
  \/ BuildLookup
  \/ BuildTryHandler
  \/ BuildNoHandler
  \/ BuildReturn

SpecBuild == InitBuild /\ [][NextBuild]_vars

(***************************************************************************)
(* Concurrent callers: NumThreads threads share one adapter; thread t      *)
(* calls ToBatchTensors once, on its own batch, batches[t].  A step of a   *)
(* thread is one statement group of ToBatchTensors; the steps of the       *)
(* threads interleave in any order.                                        *)
(***************************************************************************)
ThreadIds == 1..NumThreads

\* The frame of a thread's call: its position pc, the loop index i, the
\* dict result, its outcome, and for the properties whether it took a step
\* while another thread was inside its call.
IdleThread ==
  [pc |-> "idle", i |-> 0, result |-> <<>>, outcome |-> NoOutcome,
   overlapped |-> FALSE]

\* The batches of the first thread: any rows in the first column.
FirstThreadBatches ==
  UNION {{RecordBatch(Schema0, <<a, [r \in 1..n |-> List(<<Bytes(7)>>)]>>) :
            a \in SeqsOfLen(Rows, n)} : n \in 0..MaxRows}

\* The batches of the second thread: of the adapter's schema with a null
\* row, and of the other schema.
SecondThreadBatches ==
  {RecordBatch(Schema0, <<<<NullList, List(<<Small(2)>>)>>,
                          <<List(<<Bytes(7)>>), List(<<Bytes(7)>>)>>>>),
   OtherBatch(2)}

InitConc ==
  /\ config \in Configs
  /\ eager \in BOOLEAN
  /\ adapter = NotConstructed
  /\ batches \in {[b \in BatchIds |-> IF b = 1 THEN first
                                      ELSE IF b = 2 THEN second
                                      ELSE OtherBatch(b)] :
                    first \in FirstThreadBatches, second \in SecondThreadBatches}
  /\ frame = IdleFrame
  /\ memo = NoOutcome
  /\ build = IdleBuild
  /\ threads = [t \in ThreadIds |-> IdleThread]

\* another thread is inside its call
OthersRunning(t) == \E u \in ThreadIds \ {t} : threads[u].pc \in {"check", "loop"}

\* the frame of thread t after a step
Stepped(t, fr) ==
  [threads EXCEPT ![t] = [fr EXCEPT !.overlapped = fr.overlapped \/ OthersRunning(t)]]

\* thread t enters adapter.ToBatchTensors(batches[t])
ThreadCall(t) ==
  /\ adapter.ok
  /\ threads[t].pc = "idle"
  /\ threads' = Stepped(t, [threads[t] EXCEPT !.pc = "check"])
  /\ UNCHANGED <<build, config, eager, adapter, batches, frame, memo>>

\* ToBatchTensors, lines 81-83, in thread t
ThreadCheckSchema(t) ==
  /\ threads[t].pc = "check"
  /\ IF ~SchemaEquals(batches[t].schema, adapter.value.arrow_schema)
     THEN threads' = Stepped(t, [threads[t] EXCEPT
                                   !.pc = "done",
                                   !.outcome = Raised("SchemaMismatch")])
     ELSE threads' = Stepped(t, [threads[t] EXCEPT
                                   !.pc = "loop", !.i = 1, !.result = <<>>])
  /\ UNCHANGED <<build, config, eager, adapter, batches, frame, memo>>

\* ToBatchTensors, lines 84-89, with the dict result kept in the adapter
\* and so shared by the threads.
ThreadHandleTensorSharedResult(t) ==
  /\ threads[t].pc = "loop"
  /\ threads[t].i <= Len(adapter.value.type_handlers)
  /\ LET tensor_name == adapter.value.type_handlers[threads[t].i].name
         handler == adapter.value.type_handlers[threads[t].i].value
         effect == GetTensor(handler, batches[t], eager)
     IN /\ adapter' =
             [adapter EXCEPT !.value.type_handlers[threads[t].i].value = effect.self]
        /\ batches' = [batches EXCEPT ![t] = effect.record_batch]
        /\ IF effect.result.ok
           THEN threads' =
                  [u \in ThreadIds |->
                     IF u = t
                     THEN Stepped(t, [threads[t] EXCEPT
                                        !.i = threads[t].i + 1,
                                        !.result = DictSet(threads[t].result, tensor_name,
                                                           effect.result.value)])[t]
                     ELSE [threads[u] EXCEPT
                             !.result = DictSet(threads[u].result, tensor_name,
                                                effect.result.value)]]
           ELSE threads' =
                  Stepped(t, [threads[t] EXCEPT
                                !.pc = "done",
                                !.outcome = ConversionFailed(tensor_name,
                                                             effect.result.error)])
  /\ UNCHANGED <<build, config, eager, frame, memo>>

\* ToBatchTensors, lines 84-89, in thread t: one iteration of the loop over
\* the handlers
ThreadHandleTensor(t) ==
  /\ threads[t].pc = "loop"
  /\ threads[t].i <= Len(adapter.value.type_handlers)
  /\ LET tensor_name == adapter.value.type_handlers[threads[t].i].name
         handler == adapter.value.type_handlers[threads[t].i].value
         effect == GetTensor(handler, batches[t], eager)
     IN /\ adapter' =
             [adapter EXCEPT !.value.type_handlers[threads[t].i].value = effect.self]
        /\ batches' = [batches EXCEPT ![t] = effect.record_batch]
        /\ IF effect.result.ok
           THEN threads' =
                  Stepped(t, [threads[t] EXCEPT
                                !.i = threads[t].i + 1,
                                !.result = DictSet(threads[t].result, tensor_name,
                                                   effect.result.value)])
           ELSE threads' =
                  Stepped(t, [threads[t] EXCEPT
                                !.pc = "done",
                                !.outcome = ConversionFailed(tensor_name,
                                                             effect.result.error)])
  /\ UNCHANGED <<build, config, eager, frame, memo>>

\* ToBatchTensors, line 91, in thread t
ThreadReturn(t) ==
  /\ threads[t].pc = "loop"
  /\ threads[t].i > Len(adapter.value.type_handlers)
  /\ threads' = Stepped(t, [threads[t] EXCEPT
                              !.pc = "done",
                              !.outcome = Returned(threads[t].result)])
  /\ UNCHANGED <<build, config, eager, adapter, batches, frame, memo>>

NextConc ==
  \/ Construct
  \/ \E t \in ThreadIds : ThreadCall(t)
  \/ \E t \in ThreadIds : ThreadCheckSchema(t)
  \/ \E t \in ThreadIds : ThreadHandleTensor(t)
  \/ \E t \in ThreadIds : ThreadReturn(t)

SpecConc == InitConc /\ [][NextConc]_vars

(***************************************************************************)
(* Properties.                                                             *)
(***************************************************************************)
\* a call of ToBatchTensors is over
Done == adapter.ok /\ frame.pc = "done"

\* the record batch of the call
Arg == batches[frame.b]

\* the declared outputs, in the order of the mapping
Reps == config.tensor_representations

\* the rows of the named column in a batch of the adapter's schema
RowsOf(record_batch, column_name) ==
  IF column_name = "a" THEN record_batch.columns[1] ELSE record_batch.columns[2]

BatchSize(record_batch) == Len(record_batch.columns[1])

\* the tf dtype declared for an output on the named column
DeclaredDtype(column_name) == IF column_name = "a" THEN "int32" ELSE "string"

IsDenseRep(rep) == rep.kind = "dense_tensor"

IsPlainRep(rep) == IsDenseRep(rep) /\ ~rep.has_default

IsFillingRep(rep) == IsDenseRep(rep) /\ rep.has_default

IsSparseRep(rep) == rep.kind = "varlen_sparse_tensor"

\* C1: whenever ToBatchTensors returns, every output's TypeSpec is compatible
\* with its value: a dense output has the declared dtype, the signature
\* [None] + dims and the shape [batch_size] + dims; a sparse output has the
\* declared dtype, the signature [None, None] and rank 2.
TypeSpecCompatible ==
  (Done /\ frame.outcome.status = "returned") =>
    \A k \in 1..Len(Reps) :
      LET rep == Reps[k].value
          spec == DictGet(adapter.value.type_specs, Reps[k].name)
          value == DictGet(frame.outcome.result, Reps[k].name)
      IN /\ IsCompatibleWith(spec, value)
         /\ spec.dtype = DeclaredDtype(rep.column_name)
         /\ IsDenseRep(rep) =>
              /\ spec.cls = "TensorSpec"
              /\ spec.shape = <<Unbound>> \o rep.dims
              /\ value.cls = "Tensor"
              /\ TfAsDtype(value.array.dtype) = DeclaredDtype(rep.column_name)
              /\ value.array.shape = <<BatchSize(Arg)>> \o rep.dims
              /\ Len(value.array.shape) = 1 + Len(rep.dims)
              /\ Len(value.array.flat) = Prod(value.array.shape)
         /\ IsSparseRep(rep) =>
              /\ spec.cls = "SparseTensorSpec"
              /\ spec.shape = <<Unbound, Unbound>>
              /\ value.cls = "SparseTensor"
              /\ TfAsDtype(value.values.dtype) = DeclaredDtype(rep.column_name)
              /\ Len(value.dense_shape.flat) = 2
              /\ Len(value.indices.shape) = 2

\* A call returned a dense value of rank 3 and a sparse value for a batch of
\* two rows.
TypeSpecCompatibleWitness ==
  /\ Done
  /\ frame.outcome.status = "returned"
  /\ BatchSize(Arg) = 2
  /\ \E k \in 1..Len(Reps) : IsDenseRep(Reps[k].value) /\ Len(Reps[k].value.dims) = 2
  /\ \E k \in 1..Len(Reps) : IsSparseRep(Reps[k].value)

\* the call has come past the schema check on a batch of the adapter's schema
Converting ==
  /\ adapter.ok
  /\ frame.pc \in {"loop", "done"}
  /\ Arg.schema = Schema0
  /\ frame.outcome # Raised("SchemaMismatch")

\* the k-th output's handler has been invoked in this call
Invoked(k) == k <= Len(frame.invoked)

\* the k-th output's conversion succeeded: it did not raise, its value is in
\* the result being built, and in the returned mapping when the call returns
Succeeded(k) ==
  /\ DictHas(frame.result, Reps[k].name)
  /\ frame.outcome.status = "raised" => frame.outcome.output # Reps[k].name
  /\ frame.outcome.status = "returned" =>
       /\ DictHas(frame.outcome.result, Reps[k].name)
       /\ DictGet(frame.outcome.result, Reps[k].name)
            = DictGet(frame.result, Reps[k].name)

\* C2: a plain dense output with dims = [n], on a column without nulls whose
\* rows all have n elements, converts to an array of shape [batch_size, n]
\* whose row-major values are the rows' elements, row after row.
DenseRoundTrip ==
  Converting =>
    \A k \in 1..Len(Reps) :
      LET rep == Reps[k].value
          rows == RowsOf(Arg, rep.column_name)
      IN (/\ Invoked(k)
          /\ IsPlainRep(rep)
          /\ Len(rep.dims) = 1
          /\ \A r \in 1..Len(rows) :
               rows[r].valid /\ Len(rows[r].items) = rep.dims[1])
         => /\ Succeeded(k)
            /\ LET array == DictGet(frame.result, Reps[k].name).array
                   n == rep.dims[1]
               IN /\ array.shape = <<Len(rows), n>>
                  /\ Len(array.flat) = Len(rows) * n
                  /\ \A r \in 1..Len(rows) : \A q \in 1..n :
                       array.flat[(r - 1) * n + q] = rows[r].items[q]

\* A call returned the plain dense conversion, dims = [2], of two different
\* rows of two elements.
DenseRoundTripWitness ==
  /\ Done
  /\ Converting
  /\ frame.outcome.status = "returned"
  /\ \E k \in 1..Len(Reps) :
       LET rep == Reps[k].value
           rows == RowsOf(Arg, rep.column_name)
       IN /\ IsPlainRep(rep)
          /\ rep.dims = <<2>>
          /\ Len(rows) = 2
          /\ \A r \in 1..2 : rows[r].valid /\ Len(rows[r].items) = 2
          /\ rows[1] # rows[2]
          /\ rows[1].items[1] # rows[1].items[2]

\* C3: a default-filling dense output with default d and dims of product n,
\* on a column whose non-null rows all have n elements, converts to an array
\* of shape [batch_size] + dims in which a null row is n copies of d and a
\* non-null row keeps its elements in order, each at its row's position.
DefaultFillRoundTrip ==
  Converting =>
    \A k \in 1..Len(Reps) :
      LET rep == Reps[k].value
          rows == RowsOf(Arg, rep.column_name)
      IN (/\ Invoked(k)
          /\ IsFillingRep(rep)
          /\ \A r \in 1..Len(rows) :
               rows[r].valid => Len(rows[r].items) = Prod(rep.dims))
         => /\ Succeeded(k)
            /\ LET array == DictGet(frame.result, Reps[k].name).array
                   n == Prod(rep.dims)
               IN /\ array.shape = <<Len(rows)>> \o rep.dims
                  /\ Len(array.flat) = Len(rows) * n
                  /\ \A r \in 1..Len(rows) : \A q \in 1..n :
                       array.flat[(r - 1) * n + q] =
                         IF rows[r].valid THEN rows[r].items[q]
                         ELSE rep.default_value.value

\* A call returned the default-filled conversion, dims = [2, 1], of a null row
\* followed by a row of two different elements.
DefaultFillRoundTripWitness ==
  /\ Done
  /\ Converting
  /\ frame.outcome.status = "returned"
  /\ \E k \in 1..Len(Reps) :
       LET rep == Reps[k].value
           rows == RowsOf(Arg, rep.column_name)
       IN /\ IsFillingRep(rep)
          /\ rep.dims = <<2, 1>>
          /\ Len(rows) = 2
          /\ ~rows[1].valid
          /\ rows[2].valid
          /\ Len(rows[2].items) = 2
          /\ rows[2].items[1] # rows[2].items[2]

\* (r1, p1) comes before (r2, p2), by row then position
CoordinateBefore(c1, c2) == c1[1] < c2[1] \/ (c1[1] = c2[1] /\ c1[2] < c2[2])

\* C4: a sparse output's coordinates are exactly the (row, position) of every
\* element of the column (a null row counting as empty), in strictly
\* increasing order by row then position; values[i] is the element at
\* coordinates[i]; their number is the sum of the rows' lengths; and
\* dense_shape is (batch_size, longest row), the longest row of no rows
\* being 0.
SparseRoundTrip ==
  Converting =>
    \A k \in 1..Len(Reps) :
      LET rep == Reps[k].value
          rows == RowsOf(Arg, rep.column_name)
      IN (Invoked(k) /\ IsSparseRep(rep))
         => /\ Succeeded(k)
            /\ LET value == DictGet(frame.result, Reps[k].name)
                   n == SumSeq([r \in 1..Len(rows) |-> Len(rows[r].items)])
                   coordinate(i) == <<value.indices.flat[2 * i - 1],
                                      value.indices.flat[2 * i]>>
                   longest == value.dense_shape.flat[2]
               IN /\ value.indices.shape = <<n, 2>>
                  /\ Len(value.indices.flat) = 2 * n
                  /\ value.values.shape = <<n>>
                  /\ Len(value.values.flat) = n
                  /\ {coordinate(i) : i \in 1..n}
                       = UNION {{<<r - 1, q - 1>> : q \in 1..Len(rows[r].items)} :
                                  r \in 1..Len(rows)}
                  /\ \A i \in 1..(n - 1) :
                       CoordinateBefore(coordinate(i), coordinate(i + 1))
                  /\ \A i \in 1..n :
                       value.values.flat[i]
                         = rows[coordinate(i)[1] + 1].items[coordinate(i)[2] + 1]
                  /\ value.dense_shape.shape = <<2>>
                  /\ value.dense_shape.flat[1] = Len(rows)
                  /\ \A r \in 1..Len(rows) : Len(rows[r].items) <= longest
                  /\ \/ longest = 0
                     \/ \E r \in 1..Len(rows) : Len(rows[r].items) = longest

\* A call returned the sparse conversion of a null row followed by a row of
\* two different elements.
SparseRoundTripWitness ==
  /\ Done
  /\ Converting
  /\ frame.outcome.status = "returned"
  /\ \E k \in 1..Len(Reps) :
       LET rep == Reps[k].value
           rows == RowsOf(Arg, rep.column_name)
       IN /\ IsSparseRep(rep)
          /\ Len(rows) = 2
          /\ ~rows[1].valid
          /\ rows[2].valid
          /\ Len(rows[2].items) = 2
          /\ rows[2].items[1] # rows[2].items[2]

\* C5: a plain dense output on a column with a null row never converts: its
\* handler raises the size mismatch and the call fails on that output, for
\* every dims and whatever the other rows' lengths.
PlainDenseRejectsNulls ==
  Converting =>
    \A k \in 1..Len(Reps) :
      LET rep == Reps[k].value
          rows == RowsOf(Arg, rep.column_name)
      IN (/\ Invoked(k)
          /\ IsPlainRep(rep)
          /\ \E r \in 1..Len(rows) : ~rows[r].valid)
         => /\ frame.pc = "done"
            /\ frame.outcome = ConversionFailed(Reps[k].name, "ShapeMismatch")

\* C6: a dense output, plain or default-filling, on a column with a non-null
\* row whose length is not the product of dims never converts: its handler
\* raises the size mismatch and the call fails on that output, even when
\* other rows are wrong the other way.
WrongSizedRowRejected ==
  Converting =>
    \A k \in 1..Len(Reps) :
      LET rep == Reps[k].value
          rows == RowsOf(Arg, rep.column_name)
      IN (/\ Invoked(k)
          /\ IsDenseRep(rep)
          /\ \E r \in 1..Len(rows) :
               rows[r].valid /\ Len(rows[r].items) # Prod(rep.dims))
         => /\ frame.pc = "done"
            /\ frame.outcome = ConversionFailed(Reps[k].name, "ShapeMismatch")

\* C7: a call on a batch whose schema is not the adapter's fails with
\* SchemaMismatch before any handler is invoked and with no value computed.
SchemaMismatchFirst ==
  (/\ adapter.ok
   /\ frame.pc \in {"loop", "done"}
   /\ Arg.schema # config.arrow_schema)
  => /\ frame.pc = "done"
     /\ frame.outcome = Raised("SchemaMismatch")
     /\ frame.invoked = <<>>
     /\ frame.result = <<>>

\* A call on the batch whose columns are in the other order is over.
SchemaMismatchFirstWitness ==
  /\ Done
  /\ Arg.schema = Schema1
  /\ frame.outcome.status = "raised"

\* the names of the declared outputs, in the order of the mapping
OutputNames == [k \in 1..Len(Reps) |-> Reps[k].name]

\* the k-th output's handler raises on the call's batch
HandlerFails(k) ==
  ~GetTensor(adapter.value.type_handlers[k].value, Arg, eager).result.ok

\* C8: the handlers are invoked one at a time in the order of the declared
\* outputs; the call fails at the first output whose handler fails, with an
\* error that names the output and wraps the cause, without invoking a later
\* handler and without a result mapping; a call that returns, returns a
\* mapping whose keys are exactly the declared output names.
FailFast ==
  (adapter.ok /\ frame.pc # "idle") =>
    LET n == Len(frame.invoked)
    IN /\ n <= Len(Reps)
       /\ frame.invoked = SubSeq(OutputNames, 1, n)
       /\ frame.pc = "loop" =>
            /\ frame.i = n + 1
            /\ \A k \in 1..n : ~HandlerFails(k)
            /\ frame.outcome = NoOutcome
       /\ (frame.pc = "done" /\ frame.outcome.status = "raised"
             /\ frame.outcome.error = "ConversionFailed") =>
            /\ n >= 1
            /\ HandlerFails(n)
            /\ \A k \in 1..(n - 1) : ~HandlerFails(k)
            /\ frame.outcome.output = OutputNames[n]
            /\ frame.outcome.cause = "ShapeMismatch"
            /\ DOMAIN frame.outcome = {"status", "error", "output", "cause"}
       /\ (frame.pc = "done" /\ frame.outcome.status = "raised"
             /\ frame.outcome.error # "ConversionFailed") =>
            DOMAIN frame.outcome = {"status", "error"}
       /\ (frame.pc = "done" /\ frame.outcome.status = "returned") =>
            /\ n = Len(Reps)
            /\ \A k \in 1..n : ~HandlerFails(k)
            /\ DictKeys(frame.outcome.result) = Range(OutputNames)
            /\ Len(frame.outcome.result) = Len(Reps)

\* A call on three outputs failed at the second.
FailFastWitness ==
  /\ Done
  /\ Len(Reps) = 3
  /\ frame.outcome.status = "raised"
  /\ frame.outcome.error = "ConversionFailed"
  /\ frame.outcome.output = Reps[2].name
  /\ frame.invoked = <<Reps[1].name, Reps[2].name>>

\* C9: every completed call on batch 1 has the outcome of the first completed
\* call on batch 1, whatever calls on other batches came before or between.
Idempotent == (Done /\ frame.b = 1) => frame.outcome = memo

\* A second call on batch 1 returned, after the first one on it and a call on
\* another batch.
IdempotentWitness ==
  /\ Done
  /\ frame.b = 1
  /\ frame.repeat
  /\ frame.between
  /\ frame.outcome.status = "returned"
  /\ \E k \in 1..Len(Reps) : IsFillingRep(Reps[k].value)
  /\ \E r \in 1..BatchSize(Arg) : ~Arg.columns[1][r].valid

\* C10: once the adapter is constructed, no step of any call changes a
\* batch, the adapter's schema, handlers or type specs, or the config.
ConvertLeavesStateAlone ==
  [][adapter.ok => (adapter' = adapter /\ batches' = batches /\ config' = config)]_vars

\* A call on batch 1 failed in the handler after the one that filled the
\* null rows of its column.
ConvertLeavesStateAloneWitness ==
  /\ Done
  /\ frame.b = 1
  /\ frame.outcome.status = "raised"
  /\ Len(frame.invoked) >= 2
  /\ IsFillingRep(Reps[1].value)
  /\ \E r \in 1..BatchSize(Arg) : ~RowsOf(Arg, Reps[1].value.column_name)[r].valid

\* the number of elements of the rows of a dense output's column, a null
\* row counting for the default fill of a default-filling output and for
\* nothing of a plain one
FlatCount(rep, rows) ==
  SumSeq([r \in 1..Len(rows) |->
            IF rows[r].valid THEN Len(rows[r].items)
            ELSE IF rep.has_default THEN Prod(rep.dims) ELSE 0])

\* C18: a dense output's conversion depends on the total number of elements
\* only: it raises the size mismatch, and the call fails on that output, iff
\* the number of elements of the column (null rows filled, for the
\* default-filling handler) is not batch_size times the product of dims;
\* otherwise it succeeds with an array of shape [batch_size] + dims holding
\* that many elements.  A batch of no rows always converts, to [0] + dims.
DenseSizeCheckIsTotal ==
  Converting =>
    \A k \in 1..Len(Reps) :
      LET rep == Reps[k].value
          rows == RowsOf(Arg, rep.column_name)
      IN (Invoked(k) /\ IsDenseRep(rep)) =>
           IF FlatCount(rep, rows) = Len(rows) * Prod(rep.dims)
           THEN /\ Succeeded(k)
                /\ LET array == DictGet(frame.result, Reps[k].name).array
                   IN /\ array.shape = <<Len(rows)>> \o rep.dims
                      /\ Len(array.flat) = FlatCount(rep, rows)
                      /\ Len(rows) = 0 => array.shape = <<0>> \o rep.dims
           ELSE /\ frame.pc = "done"
                /\ frame.outcome = ConversionFailed(Reps[k].name, "ShapeMismatch")
                /\ Len(rows) > 0

\* A call returned the plain dense conversion, dims = [1], of a column whose
\* rows have no and two elements.
DenseSizeCheckIsTotalWitness ==
  /\ Done
  /\ Converting
  /\ frame.outcome.status = "returned"
  /\ \E k \in 1..Len(Reps) :
       LET rep == Reps[k].value
           rows == RowsOf(Arg, rep.column_name)
       IN /\ IsPlainRep(rep)
          /\ rep.dims = <<1>>
          /\ Len(rows) = 2
          /\ rows[1].valid
          /\ Len(rows[1].items) = 0
          /\ Len(rows[2].items) = 2

(***************************************************************************)
(* Properties of construction.                                             *)
(***************************************************************************)
\* construction is over: TensorAdapter(config) returned or raised
BuildOver == build.pc \in {"done", "failed"}

\* construction raised error at the k-th output
BuildFailedAt(k, error) ==
  /\ build.pc = "failed"
  /\ ~adapter.ok
  /\ adapter.error = error
  /\ adapter.output = Reps[k].name

\* the k-th output was examined
Examined(k) == k <= Len(build.examined)

\* the representation names a column of the schema
ColumnPresent(rep) ==
  \E i \in 1..Len(config.arrow_schema) : config.arrow_schema[i].name = rep.column_name

\* the Arrow type of the column the representation names
ColumnType(rep) ==
  LET i == CHOOSE i \in 1..Len(config.arrow_schema) :
             config.arrow_schema[i].name = rep.column_name
  IN config.arrow_schema[i].type

\* the family of an element type
Family(tag) ==
  CASE tag \in {"int8", "int16", "int32", "int64",
                "uint8", "uint16", "uint32", "uint64"} -> "integer"
    [] tag \in {"float32", "float64"} -> "floating"
    [] tag = "binary" -> "bytes"
    [] OTHER -> "unsupported"

\* the column is a list, one level deep, of a supported element type
ValidColumn(rep) ==
  /\ ColumnPresent(rep)
  /\ Len(ColumnType(rep)) = 2
  /\ ColumnType(rep)[1] = "list"
  /\ Family(ColumnType(rep)[2]) # "unsupported"

\* the family of the elements of a valid column
ColumnFamily(rep) == Family(ColumnType(rep)[2])

\* the default's kind is one for the column's family
KindMatches(rep) ==
  CASE ColumnFamily(rep) = "integer" ->
         rep.default_value.kind \in {"int_value", "uint_value"}
    [] ColumnFamily(rep) = "floating" -> rep.default_value.kind = "float_value"
    [] ColumnFamily(rep) = "bytes" -> rep.default_value.kind = "bytes_value"

\* C11: a dense output with a default-value field on a depth-1 column of a
\* supported element type whose default's kind is not one for the column's
\* family (int_value or uint_value for integers, float_value for floats,
\* bytes_value for byte strings; no kind set matches none) makes construction
\* fail, with InvalidDefaultValue when construction comes to examine it; an
\* adapter is built only if every such default's kind matches.
DefaultKindValidated ==
  BuildOver =>
    \A k \in 1..Len(Reps) :
      LET rep == Reps[k].value
      IN (IsFillingRep(rep) /\ ValidColumn(rep) /\ ~KindMatches(rep)) =>
           /\ ~adapter.ok
           /\ Examined(k) => BuildFailedAt(k, "InvalidDefaultValue")

\* Construction failed with InvalidDefaultValue on a default-value field with
\* no kind set, for a list<float64> column.
DefaultKindValidatedWitness ==
  /\ BuildFailedAt(1, "InvalidDefaultValue")
  /\ IsFillingRep(Reps[1].value)
  /\ Reps[1].value.column_name = "float64"
  /\ Reps[1].value.default_value.kind = "none"

\* the number of bits of an integer type, and whether it has a sign
Width(tag) ==
  CASE tag \in {"int8", "uint8"} -> 8
    [] tag \in {"int16", "uint16"} -> 16
    [] tag \in {"int32", "uint32"} -> 32
    [] tag \in {"int64", "uint64"} -> 64

Signed(tag) == tag \in {"int8", "int16", "int32", "int64"}

\* the number of binary digits of a magnitude
BitLength(limbs) ==
  LET nonzero == {i \in 1..4 : limbs[i] # 0}
  IN IF nonzero = {} THEN 0
     ELSE LET i == CHOOSE i \in nonzero : \A m \in nonzero : i <= m
          IN 16 * (4 - i)
               + (CHOOSE b \in 1..16 : 2 ^ (b - 1) <= limbs[i] /\ limbs[i] < 2 ^ b)

\* the python int v is a value of the integer type: 0 <= v < 2^w for an
\* unsigned type of w bits, -2^(w-1) <= v < 2^(w-1) for a signed one
Representable(v, tag) ==
  IF ~v.neg
  THEN BitLength(v.limbs) <= (IF Signed(tag) THEN Width(tag) - 1 ELSE Width(tag))
  ELSE /\ Signed(tag)
       /\ \/ BitLength(v.limbs) <= Width(tag) - 1
          \/ v.limbs = PowLimbs(Width(tag) - 1)

\* construction raised at the k-th output
FailedAtOutput(k) == build.pc = "failed" /\ adapter.output = Reps[k].name

\* C12: for a dense output on a depth-1 integer column whose default is an
\* int_value or uint_value v, construction does not fail at that output when
\* v is a value of the column's integer type, and fails, with
\* DefaultValueOutOfRange when it comes to examine the output, when it is
\* not; an adapter of that one output is built iff v is in the range.
IntegerDefaultRangeChecked ==
  BuildOver =>
    \A k \in 1..Len(Reps) :
      LET rep == Reps[k].value
      IN (/\ IsFillingRep(rep)
          /\ ValidColumn(rep)
          /\ ColumnFamily(rep) = "integer"
          /\ rep.default_value.kind \in {"int_value", "uint_value"}) =>
           LET inside == Representable(rep.default_value.value, ColumnType(rep)[2])
           IN /\ inside => ~FailedAtOutput(k)
              /\ ~inside => ~adapter.ok
              /\ (~inside /\ Examined(k)) => BuildFailedAt(k, "DefaultValueOutOfRange")
              /\ Len(Reps) = 1 => (adapter.ok <=> inside)

\* Construction failed with DefaultValueOutOfRange for the uint_value
\* 2^64 - 1 on a list<int64> column.
IntegerDefaultRangeCheckedWitness ==
  /\ BuildFailedAt(1, "DefaultValueOutOfRange")
  /\ Reps[1].value.column_name = "int64"
  /\ Reps[1].value.default_value =
       DefaultValue("uint_value", PyInt(FALSE, <<65535, 65535, 65535, 65535>>))

\* the handlers built so far hold one for the k-th output
HasHandler(k) == \E i \in 1..Len(build.result) : build.result[i].name = Reps[k].name

\* C13: a dense output, with or without a default value, or a sparse output
\* that names a column absent from the schema makes construction fail, with
\* UnknownColumn when construction comes to examine it, and no handler is
\* ever built for it.
AbsentColumnRejected ==
  \A k \in 1..Len(Reps) :
    LET rep == Reps[k].value
    IN ((IsDenseRep(rep) \/ IsSparseRep(rep)) /\ ~ColumnPresent(rep)) =>
         /\ ~HasHandler(k)
         /\ BuildOver =>
              /\ ~adapter.ok
              /\ Examined(k) => BuildFailedAt(k, "UnknownColumn")

\* Construction failed with UnknownColumn for a dense output with a default
\* value that names the absent column.
AbsentColumnRejectedWitness ==
  /\ BuildFailedAt(1, "UnknownColumn")
  /\ IsFillingRep(Reps[1].value)
  /\ Reps[1].value.column_name = "missing"
  /\ Reps[1].value.default_value.kind = "int_value"

\* C14: a dense output, with or without a default value, or a sparse output
\* on a column of the schema that is not a list one level deep (no list,
\* lists of lists) or whose innermost elements are neither integers, floats
\* nor byte strings makes construction fail, with NoCompatibleHandler when
\* construction comes to examine it, whatever its default value is, and no
\* handler is ever built for it.
UnsupportedColumnRejected ==
  \A k \in 1..Len(Reps) :
    LET rep == Reps[k].value
    IN ((IsDenseRep(rep) \/ IsSparseRep(rep))
          /\ ColumnPresent(rep) /\ ~ValidColumn(rep)) =>
         /\ ~HasHandler(k)
         /\ BuildOver =>
              /\ ~adapter.ok
              /\ Examined(k) => BuildFailedAt(k, "NoCompatibleHandler")

\* Construction failed with NoCompatibleHandler for a dense output on the
\* list<list<int64>> column whose default value has no kind set.
UnsupportedColumnRejectedWitness ==
  /\ BuildFailedAt(1, "NoCompatibleHandler")
  /\ IsFillingRep(Reps[1].value)
  /\ Reps[1].value.column_name = "nested"
  /\ Reps[1].value.default_value.kind = "none"

\* C15: construction examines the outputs in the order of the mapping; an
\* output with no kind set fails with UnsupportedRepresentationKind and no
\* CanHandle is evaluated for it; construction fails at the first output
\* that fails, the last one examined, all before it having got a handler; an
\* adapter exists only when construction is done, and then has one handler
\* and one type spec for each declared output, in order.  The outcome is the
\* one of TensorAdapter.__init__ taken as a whole.
BuildAllOrNothing ==
  /\ Len(build.examined) <= Len(Reps)
  /\ \A i \in 1..Len(build.examined) : build.examined[i] = Reps[i].name
  /\ \A e \in 1..Len(build.evaluated) :
       \E i \in 1..Len(build.examined) :
         /\ build.evaluated[e].output = Reps[i].name
         /\ Reps[i].value.kind # "none"
  /\ \A k \in 1..Len(Reps) :
       (BuildOver /\ Examined(k) /\ Reps[k].value.kind = "none") =>
         BuildFailedAt(k, "UnsupportedRepresentationKind")
  /\ build.pc = "failed" =>
       /\ ~adapter.ok
       /\ Len(build.examined) >= 1
       /\ adapter.output = Reps[Len(build.examined)].name
       /\ \A i \in 1..(Len(build.examined) - 1) : HasHandler(i)
       /\ ~HasHandler(Len(build.examined))
  /\ adapter.ok =>
       /\ build.pc = "done"
       /\ Len(adapter.value.type_handlers) = Len(Reps)
       /\ Len(adapter.value.type_specs) = Len(Reps)
       /\ \A i \in 1..Len(Reps) :
            /\ adapter.value.type_handlers[i].name = Reps[i].name
            /\ adapter.value.type_specs[i].name = Reps[i].name
            /\ adapter.value.type_specs[i].value =
                 TypeSpec(adapter.value.type_handlers[i].value)
  /\ build.pc \notin {"done", "failed"} => adapter = NotConstructed
  /\ BuildOver => adapter = TensorAdapterInit(config)

\* Construction failed with UnsupportedRepresentationKind at the second of
\* three outputs, the first having got its handler.
BuildAllOrNothingWitness ==
  /\ Len(Reps) = 3
  /\ BuildFailedAt(2, "UnsupportedRepresentationKind")
  /\ HasHandler(1)
  /\ Len(build.examined) = 2
  /\ Reps[3].value.kind # "none"

\* the handler classes whose CanHandle was evaluated for the k-th output,
\* in the order of the calls
EvaluatedFor(k) ==
  LET calls == SelectSeq(build.evaluated, LAMBDA e : e.output = Reps[k].name)
  IN [i \in 1..Len(calls) |-> calls[i].handler]

\* the class of the handler built for the k-th output
HandlerClass(k) == DictGet(build.result, Reps[k].name).cls

\* C17: for a dense output on a depth-1 column of a supported element type
\* exactly one of the two dense handlers can handle it, the plain one iff
\* no default value is configured, the default-filling one iff one is; the
\* candidates are asked in the registered order up to the first that can
\* (plain alone, or plain then default-filling), that one is built, and
\* construction never fails with NoCompatibleHandler at that output.  For a
\* sparse output the only candidate asked is the varlen sparse handler.
FirstMatchDispatch ==
  \A k \in 1..Len(Reps) :
    LET rep == Reps[k].value
    IN /\ (IsDenseRep(rep) /\ ValidColumn(rep)) =>
            /\ DenseTensorHandlerCanHandle(config.arrow_schema, rep)
                 = Ok(~rep.has_default)
            /\ DefaultFillingDenseTensorHandlerCanHandle(config.arrow_schema, rep)
                 = Ok(rep.has_default)
            /\ ~BuildFailedAt(k, "NoCompatibleHandler")
            /\ (HasHandler(k) \/ FailedAtOutput(k)) =>
                 EvaluatedFor(k) =
                   IF rep.has_default
                   THEN <<"DenseTensorHandler", "DefaultFillingDenseTensorHandler">>
                   ELSE <<"DenseTensorHandler">>
            /\ HasHandler(k) =>
                 HandlerClass(k) = IF rep.has_default
                                   THEN "DefaultFillingDenseTensorHandler"
                                   ELSE "DenseTensorHandler"
       /\ (IsSparseRep(rep) /\ (HasHandler(k) \/ FailedAtOutput(k))) =>
            EvaluatedFor(k) = <<"VarLenSparseTensorHandler">>
       /\ (IsSparseRep(rep) /\ HasHandler(k)) =>
            HandlerClass(k) = "VarLenSparseTensorHandler"

\* An adapter was built with a plain dense, a default-filling dense and a
\* sparse handler, each for an output on a supported column.
FirstMatchDispatchWitness ==
  /\ build.pc = "done"
  /\ adapter.ok
  /\ \E k \in 1..Len(Reps) :
       /\ IsFillingRep(Reps[k].value)
       /\ HandlerClass(k) = "DefaultFillingDenseTensorHandler"
       /\ EvaluatedFor(k) = <<"DenseTensorHandler", "DefaultFillingDenseTensorHandler">>
  /\ \E k \in 1..Len(Reps) :
       IsPlainRep(Reps[k].value) /\ HandlerClass(k) = "DenseTensorHandler"
  /\ \E k \in 1..Len(Reps) :
       IsSparseRep(Reps[k].value) /\ HandlerClass(k) = "VarLenSparseTensorHandler"

(***************************************************************************)
(* Properties of concurrent calls.                                         *)
(***************************************************************************)
\* The outcome of adapter.ToBatchTensors(record_batch) run alone, from the
\* k-th handler with the dict result.
RECURSIVE AloneLoop(_, _, _, _, _)
AloneLoop(type_handlers, record_batch, executing_eagerly, k, result) ==
  IF k > Len(type_handlers) THEN Returned(result)
  ELSE LET got == GetTensor(type_handlers[k].value, record_batch,
                            executing_eagerly).result
       IN IF ~got.ok THEN ConversionFailed(type_handlers[k].name, got.error)
          ELSE AloneLoop(type_handlers, record_batch, executing_eagerly, k + 1,
                         DictSet(result, type_handlers[k].name, got.value))

ToBatchTensorsAlone(self, record_batch, executing_eagerly) ==
  IF ~SchemaEquals(record_batch.schema, self.arrow_schema)
  THEN Raised("SchemaMismatch")
  ELSE AloneLoop(self.type_handlers, record_batch, executing_eagerly, 1, <<>>)

\* C16: with several threads calling ToBatchTensors of one adapter, each on
\* its own batch, in any interleaving of their steps, the adapter stays as
\* constructed and every call that is over has the outcome, returned dict or
\* exception, of the same call run alone on a fresh adapter.
ConcurrentCallsIndependent ==
  threads # NoThreads =>
    /\ adapter.ok => adapter = TensorAdapterInit(config)
    /\ \A t \in ThreadIds :
         threads[t].pc = "done" =>
           threads[t].outcome =
             ToBatchTensorsAlone(TensorAdapterInit(config).value, batches[t], eager)

\* All threads are done, thread 1 and thread 2 each took steps while the
\* other was inside its call, thread 1 returned a dict of several outputs
\* and thread 2 raised in a handler.
ConcurrentCallsIndependentWitness ==
  /\ threads # NoThreads
  /\ \A t \in ThreadIds : threads[t].pc = "done"
  /\ threads[1].overlapped
  /\ threads[2].overlapped
  /\ threads[1].outcome.status = "returned"
  /\ Len(threads[1].outcome.result) >= 2
  /\ threads[2].outcome.status = "raised"
  /\ threads[2].outcome.error = "ConversionFailed"

=============================================================================
